---- MODULE Spec2Model ----
(***************************************************************************)
(* Model of src/src/alphazero/evaluator.py: the Evaluator coordinator      *)
(* (Evaluator.start), the tournament (Evaluator.evaluate), one episode     *)
(* (Evaluator.play_game) and the archive (save_accepted_model).            *)
(*                                                                         *)
(* Three specifications share the module:                                  *)
(*   Spec      the coordinator loop of Evaluator.start, one step per       *)
(*             access to shared_variables, interleaved with the self-play  *)
(*             and training workers that observe the signals;              *)
(*   SpecEval  one run of Evaluator.evaluate, one step per game;           *)
(*   SpecGame  one run of Evaluator.play_game, one step per move.          *)
(* Models are identified by a version number: 0 is the initial model, the  *)
(* k-th candidate put on new_model_queue is k.                             *)
(***************************************************************************)
EXTENDS Integers, Sequences, FiniteSets

\* ------------------------------------------------------------------ bounds
NSelfPlay == 1          \* self-play workers
MaxCandidates == 2      \* candidates the training worker proposes
MaxClock == 1           \* seconds the wall clock advances
CoordGames == 2         \* args.num_evaluate_games of the coordinator run (or 0)
MaxGames == 6           \* largest num_evaluate_games of a tournament run
NumActions == 3         \* size of the policy vector (action space)
MaxPlies == 3           \* moves after which the game is over

VARIABLES
    \* --- Evaluator.start
    pc,                     \* position of the coordinator in start()
    new_model_queue,        \* self.new_model_queue
    proposed,               \* candidates the training worker has produced so far
    new_model_candidate,    \* local new_model_candidate
    current_model,          \* self.current_model
    MODEL_STATE_DICT,       \* shared_variables[MODEL_STATE_DICT]
    SELF_PLAY_SIGNAL,       \* shared_variables[SELF_PLAY_SIGNAL]
    TRAINING_SIGNAL,        \* shared_variables[TRAINING_SIGNAL]
    NUM_SELF_PLAY_WORKERS,  \* shared_variables[NUM_SELF_PLAY_WORKERS]
    NUM_TRAINING_WORKERS,   \* shared_variables[NUM_TRAINING_WORKERS]
    num_self_play_workers,  \* local snapshot, line 67
    num_training_workers,   \* local snapshot, line 68
    num_evaluate_games,     \* self.args.num_evaluate_games
    evaluation_threshold,   \* self.args.evaluation_threshold, a fraction <<p, q>>
    clock,                  \* time.gmtime() in whole seconds
    archive,                \* files under accepted_model_path: {<<name, model>>}
    \* --- workers (the other side of the barrier)
    wpc,                    \* position of each worker
    loaded,                 \* model version each worker runs
    seen,                   \* version being promoted when the worker saw its flag
    dead,                   \* workers that never acknowledge (crashed, deadlocked)
    \* --- Evaluator.evaluate
    epc,                    \* position in evaluate()
    i,                      \* loop index
    num_wins,               \* local num_wins
    first_player,           \* local first_player
    second_player,          \* local second_player
    swaps,                  \* how often line 98 has run
    games,                  \* the calls of play_game so far, with their results
    decision,               \* the value evaluate() returned
    \* --- Evaluator.play_game
    gpc,                    \* position in play_game()
    board,                  \* local board
    current_player,         \* local current_player
    next_player,            \* local next_player
    last_move,              \* the last pass of the move loop
    game_result             \* the value play_game() returned

varsC == <<pc, new_model_queue, proposed, new_model_candidate, current_model,
           MODEL_STATE_DICT, SELF_PLAY_SIGNAL, TRAINING_SIGNAL,
           NUM_SELF_PLAY_WORKERS, NUM_TRAINING_WORKERS, num_self_play_workers,
           num_training_workers, clock, archive, wpc, loaded, seen, dead>>
queueVars == <<new_model_queue, proposed>>
signalVars == <<SELF_PLAY_SIGNAL, TRAINING_SIGNAL>>
counterVars == <<NUM_SELF_PLAY_WORKERS, NUM_TRAINING_WORKERS>>
snapshotVars == <<num_self_play_workers, num_training_workers>>
fileVars == <<clock, archive>>
workerVars == <<wpc, loaded, seen, dead>>
varsA == <<num_evaluate_games, evaluation_threshold>>
varsE == <<epc, i, num_wins, first_player, second_player, swaps, games, decision>>
varsG == <<gpc, board, current_player, next_player, last_move, game_result>>
vars == <<varsC, varsA, varsE, varsG>>

\* ------------------------------------------------------- Evaluator.evaluate
\* The values play_game returns.
GameResults == {1, -1, 0}

\* Thresholds are fractions <<p, q>> meaning p/q, q > 0.
Thresholds == {<<0, 1>>, <<1, 2>>, <<11, 20>>, <<1, 1>>}

\* line 94
halfway_point(n) == n \div 2

\* A faulty variant of SwapsAt: the exchange happens in every pass from the halfway point on.
SwapsAt_EveryLaterGame(idx, n) == idx >= halfway_point(n)

\* line 97: the roles are exchanged when the index reaches the halfway point
SwapsAt(idx, n) == idx = halfway_point(n)

\* A faulty variant of CountsAsWin: the role swap is forgotten when the result is scored.
CountsAsWin_SecondPlayerOnly(idx, n, result) == result = -1

\* line 106: the game counts as a win of the new model
CountsAsWin(idx, n, result) ==
    \/ (idx < halfway_point(n) /\ result = -1)
    \/ (idx >= halfway_point(n) /\ result = 1)

\* A faulty variant of Accepts: the boundary is excluded.
Accepts_Strict(wins, n, threshold) == wins * threshold[2] > threshold[1] * n

\* line 110 for n # 0: num_wins / n >= threshold. Python divides two ints into
\* the nearest double and compares it with the double nearest to p/q; for the
\* sizes modelled here that is the exact comparison of the fractions.
Accepts(wins, n, threshold) == wins * threshold[2] >= threshold[1] * n

\* lines 91-107 as a function of the results of the n games
RECURSIVE WinsFrom(_, _, _)
WinsFrom(results, idx, n) ==
    IF idx >= n THEN 0
    ELSE (IF CountsAsWin(idx, n, results[idx + 1]) THEN 1 ELSE 0)
         + WinsFrom(results, idx + 1, n)

\* lines 91-110 for n # 0
evaluate(results, n, threshold) == Accepts(WinsFrom(results, 0, n), n, threshold)

\* ------------------------------------------------------------------ workers
SelfPlayWorkers == {<<"self_play", k>> : k \in 1..NSelfPlay}
\* "the training worker" of the class docstring (line 17): there is one
TrainingWorkers == {<<"training", 1>>}
Workers == SelfPlayWorkers \cup TrainingWorkers

Signal(w) == IF w \in SelfPlayWorkers THEN SELF_PLAY_SIGNAL ELSE TRAINING_SIGNAL

\* A worker sees its class's flag set.
WorkerObserve(w) ==
    /\ w \notin dead
    /\ wpc[w] = "work"
    /\ Signal(w) = 1
    /\ wpc' = [wpc EXCEPT ![w] = "reload"]
    /\ seen' = [seen EXCEPT ![w] = new_model_candidate]
    /\ UNCHANGED <<pc, queueVars, new_model_candidate, current_model, MODEL_STATE_DICT,
                   signalVars, counterVars, snapshotVars, fileVars, loaded, dead>>
    /\ UNCHANGED <<varsA, varsE, varsG>>

\* It reloads the shared model.
WorkerReload(w) ==
    /\ w \notin dead
    /\ wpc[w] = "reload"
    /\ loaded' = [loaded EXCEPT ![w] = MODEL_STATE_DICT]
    /\ seen' = [seen EXCEPT ![w] = 0]
    /\ wpc' = [wpc EXCEPT ![w] = "decrement"]
    /\ UNCHANGED <<pc, queueVars, new_model_candidate, current_model, MODEL_STATE_DICT,
                   signalVars, counterVars, snapshotVars, fileVars, dead>>
    /\ UNCHANGED <<varsA, varsE, varsG>>

\* It decrements its class's counter once (atomically).
WorkerAcknowledge(w) ==
    /\ w \notin dead
    /\ wpc[w] = "decrement"
    /\ IF w \in SelfPlayWorkers
       THEN /\ NUM_SELF_PLAY_WORKERS' = NUM_SELF_PLAY_WORKERS - 1
            /\ UNCHANGED NUM_TRAINING_WORKERS
       ELSE /\ NUM_TRAINING_WORKERS' = NUM_TRAINING_WORKERS - 1
            /\ UNCHANGED NUM_SELF_PLAY_WORKERS
    /\ wpc' = [wpc EXCEPT ![w] = "wait_clear"]
    /\ UNCHANGED <<pc, queueVars, new_model_candidate, current_model, MODEL_STATE_DICT,
                   signalVars, snapshotVars, fileVars, loaded, seen, dead>>
    /\ UNCHANGED <<varsA, varsE, varsG>>

\* It resumes work once it sees the flag cleared.
WorkerResume(w) ==
    /\ w \notin dead
    /\ wpc[w] = "wait_clear"
    /\ Signal(w) = 0
    /\ wpc' = [wpc EXCEPT ![w] = "work"]
    /\ UNCHANGED <<pc, queueVars, new_model_candidate, current_model, MODEL_STATE_DICT,
                   signalVars, counterVars, snapshotVars, fileVars, loaded, seen, dead>>
    /\ UNCHANGED <<varsA, varsE, varsG>>

\* The training worker puts a new candidate on new_model_queue.
ProposeCandidate ==
    /\ proposed < MaxCandidates
    /\ proposed' = proposed + 1
    /\ new_model_queue' = Append(new_model_queue, proposed + 1)
    /\ UNCHANGED <<pc, new_model_candidate, current_model, MODEL_STATE_DICT,
                   signalVars, counterVars, snapshotVars, fileVars, workerVars>>
    /\ UNCHANGED <<varsA, varsE, varsG>>

\* The wall clock advances by a second. The program reads the clock only in
\* save_accepted_model, so the seconds that pass anywhere else are taken there.
Tick ==
    /\ pc = "save"
    /\ clock < MaxClock
    /\ clock' = clock + 1
    /\ UNCHANGED <<pc, queueVars, new_model_candidate, current_model, MODEL_STATE_DICT,
                   signalVars, counterVars, snapshotVars, archive, workerVars>>
    /\ UNCHANGED <<varsA, varsE, varsG>>
\* ---------------------------------------------------------- Evaluator.start
\* lines 43-52: take the next candidate; an empty queue times out and the
\* loop polls again, which changes nothing.
Poll ==
    /\ pc = "poll"
    /\ new_model_queue # <<>>
    /\ new_model_candidate' = Head(new_model_queue)
    /\ new_model_queue' = Tail(new_model_queue)
    /\ pc' = "evaluate"
    /\ UNCHANGED <<proposed, current_model, MODEL_STATE_DICT, signalVars, counterVars,
                   snapshotVars, fileVars, workerVars>>
    /\ UNCHANGED <<varsA, varsE, varsG>>

\* A faulty variant of EvaluateCandidate: the weights are loaded into the current
\* model before the tournament decides.
EvaluateCandidate_LoadsFirst ==
    /\ pc = "evaluate"
    /\ current_model' = new_model_candidate
    /\ IF num_evaluate_games = 0
       THEN pc' = "error"
       ELSE \E results \in [1..num_evaluate_games -> GameResults] :
              IF evaluate(results, num_evaluate_games, evaluation_threshold)
              THEN pc' = "publish"
              ELSE pc' = "poll"
    /\ UNCHANGED <<queueVars, new_model_candidate, MODEL_STATE_DICT, signalVars, counterVars,
                   snapshotVars, fileVars, workerVars>>
    /\ UNCHANGED <<varsA, varsE, varsG>>

\* A faulty variant of EvaluateCandidate: an accepted candidate's weights are not
\* loaded into the current model.
EvaluateCandidate_KeepsIncumbent ==
    /\ pc = "evaluate"
    /\ IF num_evaluate_games = 0
       THEN pc' = "error"
       ELSE \E results \in [1..num_evaluate_games -> GameResults] :
              IF evaluate(results, num_evaluate_games, evaluation_threshold)
              THEN pc' = "publish"
              ELSE pc' = "poll"
    /\ UNCHANGED <<queueVars, new_model_candidate, current_model, MODEL_STATE_DICT,
                   signalVars, counterVars, snapshotVars, fileVars, workerVars>>
    /\ UNCHANGED <<varsA, varsE, varsG>>

\* A faulty variant of EvaluateCandidate: a tournament of no games rejects the
\* candidate instead of failing.
EvaluateCandidate_NoGamesRejects ==
    /\ pc = "evaluate"
    /\ IF num_evaluate_games = 0
       THEN /\ pc' = "poll"
            /\ UNCHANGED current_model
       ELSE \E results \in [1..num_evaluate_games -> GameResults] :
              IF evaluate(results, num_evaluate_games, evaluation_threshold)
              THEN /\ current_model' = new_model_candidate
                   /\ pc' = "publish"
              ELSE /\ pc' = "poll"
                   /\ UNCHANGED current_model
    /\ UNCHANGED <<queueVars, new_model_candidate, MODEL_STATE_DICT, signalVars, counterVars,
                   snapshotVars, fileVars, workerVars>>
    /\ UNCHANGED <<varsA, varsE, varsG>>

\* lines 55-57: the tournament; with no games line 110 divides by zero and the
\* exception leaves start(); on acceptance the current model takes the weights.
EvaluateCandidate ==
    /\ pc = "evaluate"
    /\ IF num_evaluate_games = 0
       THEN /\ pc' = "error"
            /\ UNCHANGED current_model
       ELSE \E results \in [1..num_evaluate_games -> GameResults] :
              IF evaluate(results, num_evaluate_games, evaluation_threshold)
              THEN /\ current_model' = new_model_candidate
                   /\ pc' = "publish"
              ELSE /\ pc' = "poll"
                   /\ UNCHANGED current_model
    /\ UNCHANGED <<queueVars, new_model_candidate, MODEL_STATE_DICT, signalVars, counterVars,
                   snapshotVars, fileVars, workerVars>>
    /\ UNCHANGED <<varsA, varsE, varsG>>

\* A faulty variant of PublishModel: the shared model is not written before the signals.
PublishModel_NotWritten ==
    /\ pc = "publish"
    /\ pc' = "set_self_play"
    /\ UNCHANGED <<queueVars, new_model_candidate, current_model, MODEL_STATE_DICT,
                   signalVars, counterVars, snapshotVars, fileVars, workerVars>>
    /\ UNCHANGED <<varsA, varsE, varsG>>

\* line 60
PublishModel ==
    /\ pc = "publish"
    /\ MODEL_STATE_DICT' = new_model_candidate
    /\ pc' = "set_self_play"
    /\ UNCHANGED <<queueVars, new_model_candidate, current_model, signalVars, counterVars,
                   snapshotVars, fileVars, workerVars>>
    /\ UNCHANGED <<varsA, varsE, varsG>>

\* line 63
SetSelfPlaySignal ==
    /\ pc = "set_self_play"
    /\ SELF_PLAY_SIGNAL' = 1
    /\ pc' = "set_training"
    /\ UNCHANGED <<queueVars, new_model_candidate, current_model, MODEL_STATE_DICT,
                   TRAINING_SIGNAL, counterVars, snapshotVars, fileVars, workerVars>>
    /\ UNCHANGED <<varsA, varsE, varsG>>

\* line 64
SetTrainingSignal ==
    /\ pc = "set_training"
    /\ TRAINING_SIGNAL' = 1
    /\ pc' = "snapshot_self_play"
    /\ UNCHANGED <<queueVars, new_model_candidate, current_model, MODEL_STATE_DICT,
                   SELF_PLAY_SIGNAL, counterVars, snapshotVars, fileVars, workerVars>>
    /\ UNCHANGED <<varsA, varsE, varsG>>

\* line 67
SnapshotSelfPlay ==
    /\ pc = "snapshot_self_play"
    /\ num_self_play_workers' = NUM_SELF_PLAY_WORKERS
    /\ pc' = "snapshot_training"
    /\ UNCHANGED <<queueVars, new_model_candidate, current_model, MODEL_STATE_DICT,
                   signalVars, counterVars, num_training_workers, fileVars, workerVars>>
    /\ UNCHANGED <<varsA, varsE, varsG>>

\* line 68
SnapshotTraining ==
    /\ pc = "snapshot_training"
    /\ num_training_workers' = NUM_TRAINING_WORKERS
    /\ pc' = "wait_self_play"
    /\ UNCHANGED <<queueVars, new_model_candidate, current_model, MODEL_STATE_DICT,
                   signalVars, counterVars, num_self_play_workers, fileVars, workerVars>>
    /\ UNCHANGED <<varsA, varsE, varsG>>

\* line 71, left operand of `and`: where the loop test goes after reading
\* NUM_SELF_PLAY_WORKERS (a value that is not positive ends the loop at once)
AfterSelfPlayTest(count) == IF count > 0 THEN "wait_training" ELSE "unset_self_play"

\* line 71, right operand: where it goes after reading NUM_TRAINING_WORKERS
\* (positive: line 72 sleeps and the test starts again)
AfterTrainingTest(count) == IF count > 0 THEN "wait_self_play" ELSE "unset_self_play"

\* line 71: NUM_SELF_PLAY_WORKERS > 0 and ...
WaitSelfPlay ==
    /\ pc = "wait_self_play"
    /\ pc' = AfterSelfPlayTest(NUM_SELF_PLAY_WORKERS)
    /\ UNCHANGED <<queueVars, new_model_candidate, current_model, MODEL_STATE_DICT,
                   signalVars, counterVars, snapshotVars, fileVars, workerVars>>
    /\ UNCHANGED <<varsA, varsE, varsG>>

\* lines 71-72: ... and NUM_TRAINING_WORKERS > 0, then sleep
WaitTraining ==
    /\ pc = "wait_training"
    /\ pc' = AfterTrainingTest(NUM_TRAINING_WORKERS)
    /\ UNCHANGED <<queueVars, new_model_candidate, current_model, MODEL_STATE_DICT,
                   signalVars, counterVars, snapshotVars, fileVars, workerVars>>
    /\ UNCHANGED <<varsA, varsE, varsG>>

\* line 75
UnsetSelfPlaySignal ==
    /\ pc = "unset_self_play"
    /\ SELF_PLAY_SIGNAL' = 0
    /\ pc' = "unset_training"
    /\ UNCHANGED <<queueVars, new_model_candidate, current_model, MODEL_STATE_DICT,
                   TRAINING_SIGNAL, counterVars, snapshotVars, fileVars, workerVars>>
    /\ UNCHANGED <<varsA, varsE, varsG>>

\* A faulty variant of UnsetTrainingSignal: the training flag is left set.
UnsetTrainingSignal_LeftSet ==
    /\ pc = "unset_training"
    /\ pc' = "restore_self_play"
    /\ UNCHANGED <<queueVars, new_model_candidate, current_model, MODEL_STATE_DICT,
                   signalVars, counterVars, snapshotVars, fileVars, workerVars>>
    /\ UNCHANGED <<varsA, varsE, varsG>>

\* line 76
UnsetTrainingSignal ==
    /\ pc = "unset_training"
    /\ TRAINING_SIGNAL' = 0
    /\ pc' = "restore_self_play"
    /\ UNCHANGED <<queueVars, new_model_candidate, current_model, MODEL_STATE_DICT,
                   SELF_PLAY_SIGNAL, counterVars, snapshotVars, fileVars, workerVars>>
    /\ UNCHANGED <<varsA, varsE, varsG>>

\* A faulty variant of RestoreSelfPlay: the counter is reset where it is read.
RestoreSelfPlay_WritesElsewhere ==
    /\ pc = "restore_self_play"
    /\ NUM_SELF_PLAY_WORKERS' = num_self_play_workers
    /\ NUM_TRAINING_WORKERS' = num_training_workers
    /\ pc' = "restore_training"
    /\ UNCHANGED <<queueVars, new_model_candidate, current_model, MODEL_STATE_DICT,
                   signalVars, snapshotVars, fileVars, workerVars>>
    /\ UNCHANGED <<varsA, varsE, varsG>>

\* line 79
RestoreSelfPlay ==
    /\ pc = "restore_self_play"
    /\ NUM_SELF_PLAY_WORKERS' = num_self_play_workers
    /\ pc' = "restore_training"
    /\ UNCHANGED <<queueVars, new_model_candidate, current_model, MODEL_STATE_DICT,
                   signalVars, NUM_TRAINING_WORKERS, snapshotVars, fileVars, workerVars>>
    /\ UNCHANGED <<varsA, varsE, varsG>>

\* line 80
RestoreTraining ==
    /\ pc = "restore_training"
    /\ NUM_TRAINING_WORKERS' = num_training_workers
    /\ pc' = "save"
    /\ UNCHANGED <<queueVars, new_model_candidate, current_model, MODEL_STATE_DICT,
                   signalVars, NUM_SELF_PLAY_WORKERS, snapshotVars, fileVars, workerVars>>
    /\ UNCHANGED <<varsA, varsE, varsG>>

\* lines 160-163: the file name is the time in whole seconds
FileName(seconds) == seconds

\* A faulty variant of save_accepted_model: a file that exists is kept next to the new one.
save_accepted_model_KeepsBoth(files, seconds, model) ==
    files \cup {<<FileName(seconds), model>>}

\* lines 158-169: torch.save writes the file of that name, replacing one that exists
save_accepted_model(files, seconds, model) ==
    {f \in files : f[1] # FileName(seconds)} \cup {<<FileName(seconds), model>>}

\* line 83, then back to line 41
SaveAcceptedModel ==
    /\ pc = "save"
    /\ archive' = save_accepted_model(archive, clock, new_model_candidate)
    /\ pc' = "poll"
    /\ UNCHANGED <<queueVars, new_model_candidate, current_model, MODEL_STATE_DICT,
                   signalVars, counterVars, snapshotVars, clock, workerVars>>
    /\ UNCHANGED <<varsA, varsE, varsG>>

\* ------------------------------------------------------- the three machines
\* evaluate() and play_game() before they are called
EvalIdle ==
    /\ epc = "idle" /\ i = 0 /\ num_wins = 0
    /\ first_player = "current_model" /\ second_player = "new_model"
    /\ swaps = 0 /\ games = <<>> /\ decision = "none"

GameIdle ==
    /\ gpc = "idle" /\ board = [ply |-> 0, legal |-> {}, ended |-> FALSE, result |-> "*"]
    /\ current_player = "first_player" /\ next_player = "second_player"
    /\ last_move = [ply |-> -1] /\ game_result = "none"

\* The threshold of the coordinator run.
CoordThreshold == <<11, 20>>

\* lines 28-35, and the shared variables as the program sets them up before
\* start(): both flags 0, each counter the number of workers of its class, every
\* worker running the initial model.
CoordInit ==
    /\ pc = "poll"
    /\ new_model_queue = <<>>
    /\ proposed = 0
    /\ new_model_candidate = 0
    /\ current_model = 0
    /\ MODEL_STATE_DICT = 0
    /\ SELF_PLAY_SIGNAL = 0
    /\ TRAINING_SIGNAL = 0
    /\ NUM_SELF_PLAY_WORKERS = Cardinality(SelfPlayWorkers)
    /\ NUM_TRAINING_WORKERS = Cardinality(TrainingWorkers)
    /\ num_self_play_workers = 0
    /\ num_training_workers = 0
    /\ clock = 0
    /\ archive = {}
    /\ wpc = [w \in Workers |-> "work"]
    /\ loaded = [w \in Workers |-> 0]
    /\ seen = [w \in Workers |-> 0]

\* At most one worker is one that never acknowledges.
Init ==
    /\ CoordInit
    /\ dead \in {D \in SUBSET Workers : Cardinality(D) <= 1}
    /\ num_evaluate_games \in {0, CoordGames}
    /\ evaluation_threshold = CoordThreshold
    /\ EvalIdle
    /\ GameIdle

Next ==
    \/ Poll
    \/ EvaluateCandidate
    \/ PublishModel
    \/ SetSelfPlaySignal
    \/ SetTrainingSignal
    \/ SnapshotSelfPlay
    \/ SnapshotTraining
    \/ WaitSelfPlay
    \/ WaitTraining
    \/ UnsetSelfPlaySignal
    \/ UnsetTrainingSignal
    \/ RestoreSelfPlay
    \/ RestoreTraining
    \/ SaveAcceptedModel
    \/ ProposeCandidate
    \/ Tick
    \/ \E w \in Workers : WorkerObserve(w)
    \/ \E w \in Workers : WorkerReload(w)
    \/ \E w \in Workers : WorkerAcknowledge(w)
    \/ \E w \in Workers : WorkerResume(w)

Spec == Init /\ [][Next]_vars

\* The steps of the process that runs start().
CoordinatorStep ==
    \/ Poll
    \/ EvaluateCandidate
    \/ PublishModel
    \/ SetSelfPlaySignal
    \/ SetTrainingSignal
    \/ SnapshotSelfPlay
    \/ SnapshotTraining
    \/ WaitSelfPlay
    \/ WaitTraining
    \/ UnsetSelfPlaySignal
    \/ UnsetTrainingSignal
    \/ RestoreSelfPlay
    \/ RestoreTraining
    \/ SaveAcceptedModel

\* The steps of one worker process.
WorkerStep(w) ==
    \/ WorkerObserve(w)
    \/ WorkerReload(w)
    \/ WorkerAcknowledge(w)
    \/ WorkerResume(w)

\* Every process that can keep running does run: the coordinator and each
\* worker are separate processes of the operating system.
SpecFair ==
    /\ Init
    /\ [][Next]_vars
    /\ WF_vars(CoordinatorStep)
    /\ \A w \in Workers : WF_vars(WorkerStep(w))

\* ------------------------------------------- Evaluator.evaluate, step by step
\* lines 95-107: one pass of the loop, one game. play_game's result is any of
\* its three return values.
PlayOneGame ==
    /\ epc = "loop"
    /\ i < num_evaluate_games
    /\ LET swap == SwapsAt(i, num_evaluate_games)
           first == IF swap THEN second_player ELSE first_player
           second == IF swap THEN first_player ELSE second_player
       IN  /\ first_player' = first
           /\ second_player' = second
           /\ swaps' = swaps + (IF swap THEN 1 ELSE 0)
           /\ \E result \in GameResults :
                /\ games' = Append(games, [index |-> i, first |-> first,
                                           second |-> second, result |-> result])
                /\ num_wins' = num_wins
                       + (IF CountsAsWin(i, num_evaluate_games, result) THEN 1 ELSE 0)
    /\ i' = i + 1
    /\ UNCHANGED <<epc, decision>>
    /\ UNCHANGED <<varsC, varsA, varsG>>

\* line 110: the loop is over; dividing by zero games raises ZeroDivisionError
ReturnDecision ==
    /\ epc = "loop"
    /\ i >= num_evaluate_games
    /\ IF num_evaluate_games = 0
       THEN /\ epc' = "error"
            /\ UNCHANGED decision
       ELSE /\ epc' = "done"
            /\ decision' = Accepts(num_wins, num_evaluate_games, evaluation_threshold)
    /\ UNCHANGED <<i, num_wins, first_player, second_player, swaps, games>>
    /\ UNCHANGED <<varsC, varsA, varsG>>

\* lines 91-94, for any configured number of games and threshold
InitEval ==
    /\ CoordInit
    /\ dead = {}
    /\ num_evaluate_games \in 0..MaxGames
    /\ evaluation_threshold \in Thresholds
    /\ epc = "loop" /\ i = 0 /\ num_wins = 0
    /\ first_player = "current_model" /\ second_player = "new_model"
    /\ swaps = 0 /\ games = <<>> /\ decision = "none"
    /\ GameIdle

NextEval ==
    \/ PlayOneGame
    \/ ReturnDecision

SpecEval == InitEval /\ [][NextEval]_vars

\* ------------------------------------------ Evaluator.play_game, step by step
\* The game, the board translator and the move translator are collaborators
\* behind interfaces. A board is what play_game can learn of it: how many moves
\* led to it, which actions checkIfValid accepts on it, whether getGameEnded
\* holds of it and what getResult says.
Indices == 1..NumActions
None == <<"None">>

\* line 139: the move translator turns an index of the policy into a move
decode(index) == <<"move", index>>

Moves == {decode(index) : index \in Indices}

\* line 134: argsort puts every index of the policy into some order
Rankings == {r \in [Indices -> Indices] : \A a, b \in Indices : r[a] = r[b] => a = b}

Outcomes == {"1-0", "0-1", "1/2-1/2"}

Boards(ply) ==
    {[ply |-> ply, legal |-> l, ended |-> FALSE, result |-> "*"] : l \in SUBSET Moves}
    \cup {[ply |-> ply, legal |-> {}, ended |-> TRUE, result |-> r] : r \in Outcomes}

\* line 126
getGameEnded(b) == b.ended

\* line 140
checkIfValid(b, action) == action \in b.legal

\* lines 137-141: the first decoded action that is valid; when the loop runs
\* out, the variable keeps the last action decoded (None for an empty ranking)
RECURSIVE TryFrom(_, _, _, _)
TryFrom(sorted_indices, k, b, action) ==
    IF k > Len(sorted_indices) THEN action
    ELSE IF checkIfValid(b, decode(sorted_indices[k])) THEN decode(sorted_indices[k])
    ELSE TryFrom(sorted_indices, k + 1, b, decode(sorted_indices[k]))

\* A faulty variant of SelectAction: the loop has no break and ends on the last index.
SelectAction_NoBreak(sorted_indices, b) ==
    IF Len(sorted_indices) = 0 THEN None
    ELSE decode(sorted_indices[Len(sorted_indices)])

SelectAction(sorted_indices, b) == TryFrom(sorted_indices, 1, b, None)

\* A faulty variant of ResultValue: the result is reported from the side of
\* the player who moved last.
ResultValue_Flipped(result) == IF result = "1-0" THEN -1 ELSE IF result = "0-1" THEN 1 ELSE 0

\* lines 151-156
ResultValue(result) == IF result = "1-0" THEN 1 ELSE IF result = "0-1" THEN -1 ELSE 0

\* lines 126-147: one pass of the move loop. getNextState is called with the
\* selected action whatever the validity check said (line 144); the game
\* answers a valid action with the next board (over once MaxPlies moves are
\* made), and an action it did not accept with some board or with an exception.
MakeMove ==
    /\ gpc = "loop"
    /\ ~getGameEnded(board)
    /\ \E ranking \in Rankings :
         LET sorted_indices == [k \in 1..NumActions |-> ranking[k]]
             action == SelectAction(sorted_indices, board)
         IN  /\ last_move' = [ply |-> board.ply, player |-> current_player,
                              sorted_indices |-> sorted_indices,
                              legal |-> board.legal, action |-> action]
             /\ \/ /\ board' \in {b \in Boards(board.ply + 1) :
                                    board.ply + 1 >= MaxPlies => b.ended}
                   /\ current_player' = next_player
                   /\ next_player' = current_player
                   /\ gpc' = "loop"
                \/ /\ ~checkIfValid(board, action)
                   /\ gpc' = "error"
                   /\ UNCHANGED <<board, current_player, next_player>>
    /\ UNCHANGED game_result
    /\ UNCHANGED <<varsC, varsA, varsE>>

\* lines 149-156: the game has ended
ReturnResult ==
    /\ gpc = "loop"
    /\ getGameEnded(board)
    /\ game_result' = ResultValue(board.result)
    /\ gpc' = "done"
    /\ UNCHANGED <<board, current_player, next_player, last_move>>
    /\ UNCHANGED <<varsC, varsA, varsE>>

\* lines 119-123
InitGame ==
    /\ CoordInit
    /\ dead = {}
    /\ num_evaluate_games = CoordGames
    /\ evaluation_threshold = CoordThreshold
    /\ EvalIdle
    /\ gpc = "loop"
    /\ board \in Boards(0)
    /\ current_player = "first_player"
    /\ next_player = "second_player"
    /\ last_move = [ply |-> -1]
    /\ game_result = "none"

NextGame ==
    \/ MakeMove
    \/ ReturnResult

SpecGame == InitGame /\ [][NextGame]_vars

\* ================================================================== claims
LiveWorkers == Workers \ dead

\* C1: the coordinator leaves the wait loop of line 71 only when both pending
\* counters are zero. Violated: `and` ends the loop as soon as either is zero.
C1_WaitEndsOnlyWhenBothZero ==
    [][(pc \in {"wait_self_play", "wait_training"} /\ pc' = "unset_self_play")
          => (NUM_SELF_PLAY_WORKERS = 0 /\ NUM_TRAINING_WORKERS = 0)]_vars

\* C2: when the flags have just been cleared (line 76 done), every live worker
\* of both classes runs the newly accepted model. Violated: see C1.
C2_AllLiveWorkersReloaded ==
    pc = "restore_self_play"
        => \A w \in LiveWorkers : loaded[w] = new_model_candidate

\* C3: whenever a signal flag is set the shared model is the candidate just
\* accepted, and while a worker is between seeing its flag and reading the
\* shared model, the shared model is the version whose flag it saw or a later
\* accepted one, never an earlier one.
C3_PublishBeforeSignal ==
    /\ (SELF_PLAY_SIGNAL = 1 \/ TRAINING_SIGNAL = 1)
          => /\ MODEL_STATE_DICT = new_model_candidate
             /\ MODEL_STATE_DICT = current_model
             /\ MODEL_STATE_DICT >= 1
    /\ \A w \in Workers :
          wpc[w] = "reload" => (seen[w] >= 1 /\ MODEL_STATE_DICT >= seen[w])

\* In a second promotion a worker has read the new model, its flag still set.
C3_Witness ==
    /\ SELF_PLAY_SIGNAL = 1
    /\ archive # {}
    /\ MODEL_STATE_DICT = 2
    /\ \E w \in SelfPlayWorkers : wpc[w] = "decrement" /\ loaded[w] = 2

\* C4: when a promotion cycle completes (line 80 done) both counters are back
\* at the worker counts they had before the promotion and both flags are 0.
\* Violated: the snapshot of lines 67-68 is taken after the flags are set, and
\* workers still decrement after the early exit of C1.
C4_CountersRestored ==
    [][(pc = "restore_training" /\ pc' = "save")
          => /\ NUM_SELF_PLAY_WORKERS' = Cardinality(SelfPlayWorkers)
             /\ NUM_TRAINING_WORKERS' = Cardinality(TrainingWorkers)
             /\ SELF_PLAY_SIGNAL' = 0
             /\ TRAINING_SIGNAL' = 0]_vars

\* C5: with a worker that never acknowledges, the coordinator never gets past
\* the wait loop: the flags are never cleared and nothing is archived.
\* Violated: see C1.
C5_BlocksWhileAWorkerNeverAcknowledges ==
    dead # {}
        => /\ pc \notin {"unset_self_play", "unset_training", "restore_self_play",
                         "restore_training", "save"}
           /\ archive = {}

\* The model that won a recorded game, by identity.
Winner(g) ==
    IF g.result = 1 THEN g.first ELSE IF g.result = -1 THEN g.second ELSE "nobody"

CandidateWins == Cardinality({k \in 1..Len(games) : Winner(games[k]) = "new_model"})

\* C6: for n >= 1 games, evaluate returns true iff (candidate wins) / n >=
\* threshold, n the number of all games, the boundary included; 11 of 20 at
\* 0.55 accepts, 10 of 20 and 5 of 10 at 0.55 reject.
C6_AcceptsIffWinFractionReachesThreshold ==
    /\ epc = "done"
          => /\ num_evaluate_games >= 1
             /\ Len(games) = num_evaluate_games
             /\ decision \in BOOLEAN
             /\ decision <=> (CandidateWins * evaluation_threshold[2]
                                 >= evaluation_threshold[1] * num_evaluate_games)
    /\ Accepts(11, 20, <<11, 20>>)
    /\ ~Accepts(10, 20, <<11, 20>>)
    /\ ~Accepts(5, 10, <<11, 20>>)

\* Exactly on the boundary: 3 wins of 6 at threshold 1/2 are accepted.
C6_Witness ==
    /\ epc = "done"
    /\ num_evaluate_games = 6
    /\ evaluation_threshold = <<1, 2>>
    /\ CandidateWins = 3
    /\ decision = TRUE

Finished == epc \in {"done", "error"}

\* The games played so far are games 0, 1, ... in order, the incumbent first
\* before floor(n/2) and the candidate first from there on.
RolesFollowHalves ==
    /\ Len(games) = i
    /\ i <= num_evaluate_games
    /\ Finished => Len(games) = num_evaluate_games
    /\ \A k \in 1..Len(games) :
          /\ games[k].index = k - 1
          /\ IF k - 1 < num_evaluate_games \div 2
             THEN games[k].first = "current_model" /\ games[k].second = "new_model"
             ELSE games[k].first = "new_model" /\ games[k].second = "current_model"
    /\ Finished =>
          /\ Cardinality({k \in 1..Len(games) : games[k].first = "current_model"})
                = num_evaluate_games \div 2
          /\ Cardinality({k \in 1..Len(games) : games[k].first = "new_model"})
                = num_evaluate_games - (num_evaluate_games \div 2)

C8_WinsAreCandidateWins ==
    /\ num_wins = CandidateWins
    /\ num_wins = Cardinality({k \in 1..Len(games) :
                     \/ (games[k].second = "new_model" /\ games[k].result = -1)
                     \/ (games[k].first = "new_model" /\ games[k].result = 1)})

\* Every kind of result in both halves: the incumbent wins game 0 and game 3,
\* game 1 is a draw, the candidate wins game 2 (as second) and game 4 (as first).
C8_Witness ==
    /\ epc = "done"
    /\ num_evaluate_games = 6
    /\ games[1].result = 1
    /\ games[2].result = 0
    /\ games[3].result = -1
    /\ games[4].result = -1
    /\ games[5].result = 1
    /\ games[6].result = 0
    /\ num_wins = 2

Moved == last_move.ply >= 0

RankedActions == {decode(last_move.sorted_indices[k]) : k \in 1..Len(last_move.sorted_indices)}

\* Rank of an action in the last ranking (1 is the most preferred).
RankOf(action) ==
    CHOOSE k \in 1..Len(last_move.sorted_indices) :
        decode(last_move.sorted_indices[k]) = action

\* C9: when the ranking holds a legal action, the action given to getNextState
\* is legal and no legal action is ranked above it.
C9_HighestRankedLegalAction ==
    (Moved /\ RankedActions \cap last_move.legal # {})
        => /\ last_move.action \in last_move.legal
           /\ last_move.action \in RankedActions
           /\ \A a \in last_move.legal \cap RankedActions :
                 RankOf(last_move.action) <= RankOf(a)

\* Only the last action of the ranking is legal, and it is the one applied.
C9_Witness ==
    /\ Moved
    /\ last_move.legal = {decode(last_move.sorted_indices[NumActions])}
    /\ last_move.action = decode(last_move.sorted_indices[NumActions])
    /\ board.ply = last_move.ply + 1

\* C10: when no ranked action is legal the episode fails and getNextState is
\* not called with an illegal action. Violated: line 144 passes the last
\* action decoded, which the validity check rejected, to getNextState.
C10_NoLegalActionIsFatal ==
    (Moved /\ RankedActions \cap last_move.legal = {})
        => /\ last_move.action = None
           /\ gpc = "error"

\* A live worker owes an acknowledgment when it has seen a flag and not yet
\* decremented, or still runs a model older than the one last published.
OwesAcknowledgment(w) ==
    \/ wpc[w] \in {"reload", "decrement"}
    \/ loaded[w] # MODEL_STATE_DICT

\* C11: while the coordinator polls the queue or evaluates, both flags are 0
\* and no live worker owes an acknowledgment for an earlier promotion.
\* Violated: see C1, the promotion ends with one class still owing.
C11_NoPromotionInFlightWhileIdle ==
    pc \in {"poll", "evaluate"}
        => /\ SELF_PLAY_SIGNAL = 0
           /\ TRAINING_SIGNAL = 0
           /\ \A w \in LiveWorkers : ~OwesAcknowledgment(w)

\* A step of a worker of the class decrements the class's counter by one.
WorkerDecrements(cls, before, after) ==
    /\ pc' = pc
    /\ after = before - 1
    /\ \E w \in cls : wpc[w] = "decrement" /\ wpc'[w] = "wait_clear"

\* The coordinator is the only writer of the shared model and of the flags.
CoordinatorOwnsModelAndFlags ==
    (\/ MODEL_STATE_DICT' # MODEL_STATE_DICT
     \/ SELF_PLAY_SIGNAL' # SELF_PLAY_SIGNAL
     \/ TRAINING_SIGNAL' # TRAINING_SIGNAL)
        => (pc' # pc /\ wpc' = wpc /\ loaded' = loaded)

\* C12 as stated: the coordinator alone writes the shared model and the flags,
\* and the pending counters change only by a worker of the class decrementing;
\* no step of start() writes a counter. Violated: lines 79-80 write both.
C12_CountersWrittenOnlyByWorkers ==
    [][/\ CoordinatorOwnsModelAndFlags
       /\ NUM_SELF_PLAY_WORKERS' # NUM_SELF_PLAY_WORKERS
            => WorkerDecrements(SelfPlayWorkers, NUM_SELF_PLAY_WORKERS,
                                NUM_SELF_PLAY_WORKERS')
       /\ NUM_TRAINING_WORKERS' # NUM_TRAINING_WORKERS
            => WorkerDecrements(TrainingWorkers, NUM_TRAINING_WORKERS,
                                NUM_TRAINING_WORKERS')]_vars

\* C12 amended: the coordinator alone writes the shared model and the flags;
\* a pending counter changes either by a worker of its class decrementing it by
\* one, or by the coordinator's restore (line 79 for self-play, line 80 for
\* training), which sets it to the snapshot of lines 67-68 whatever decrements
\* were made since; no other step of start() writes a counter.
C12_CountersWrittenByWorkersAndRestore ==
    [][/\ CoordinatorOwnsModelAndFlags
       /\ NUM_SELF_PLAY_WORKERS' # NUM_SELF_PLAY_WORKERS
            => \/ WorkerDecrements(SelfPlayWorkers, NUM_SELF_PLAY_WORKERS,
                                   NUM_SELF_PLAY_WORKERS')
               \/ /\ pc = "restore_self_play" /\ pc' = "restore_training"
                  /\ NUM_SELF_PLAY_WORKERS' = num_self_play_workers
                  /\ wpc' = wpc
       /\ NUM_TRAINING_WORKERS' # NUM_TRAINING_WORKERS
            => \/ WorkerDecrements(TrainingWorkers, NUM_TRAINING_WORKERS,
                                   NUM_TRAINING_WORKERS')
               \/ /\ pc = "restore_training" /\ pc' = "save"
                  /\ NUM_TRAINING_WORKERS' = num_training_workers
                  /\ wpc' = wpc]_vars

\* The restore of line 79 has just undone the decrement of a self-play worker
\* that acknowledged: the counter is positive again and the worker has counted.
C12_Witness ==
    /\ pc = "restore_training"
    /\ NUM_SELF_PLAY_WORKERS = Cardinality(SelfPlayWorkers)
    /\ \A w \in SelfPlayWorkers : wpc[w] = "wait_clear"

\* What a rejection must leave alone.
PublishedState ==
    <<MODEL_STATE_DICT, SELF_PLAY_SIGNAL, TRAINING_SIGNAL, NUM_SELF_PLAY_WORKERS,
      NUM_TRAINING_WORKERS, current_model, archive>>

\* C13: taking a candidate from the queue and rejecting it change neither the
\* shared model, the flags, the counters, the current model nor the archive,
\* and after the rejection the coordinator polls the queue again.
C13_RejectionChangesNothing ==
    [][(\/ (pc = "poll" /\ pc' = "evaluate")
        \/ (pc = "evaluate" /\ pc' \notin {"evaluate", "publish", "error"}))
          => (PublishedState' = PublishedState /\ pc' \in {"evaluate", "poll"})]_vars

\* Candidate 2 has been rejected after candidate 1 was accepted.
C13_Witness ==
    /\ pc = "poll"
    /\ new_model_candidate = 2
    /\ current_model = 1
    /\ MODEL_STATE_DICT = 1

\* The order in which start() goes through its steps.
StepOrder ==
    {<<"poll", "evaluate">>, <<"evaluate", "poll">>, <<"evaluate", "error">>,
     <<"evaluate", "publish">>, <<"publish", "set_self_play">>,
     <<"set_self_play", "set_training">>, <<"set_training", "snapshot_self_play">>,
     <<"snapshot_self_play", "snapshot_training">>,
     <<"snapshot_training", "wait_self_play">>,
     <<"wait_self_play", "wait_training">>, <<"wait_training", "wait_self_play">>,
     <<"wait_self_play", "unset_self_play">>, <<"wait_training", "unset_self_play">>,
     <<"unset_self_play", "unset_training">>, <<"unset_training", "restore_self_play">>,
     <<"restore_self_play", "restore_training">>, <<"restore_training", "save">>,
     <<"save", "poll">>}

\* C14: for an accepted candidate the shared model is written, then both flags
\* are set, then the wait ends, then both flags are cleared, then the counters
\* are restored, then the model is archived, each once; nothing is archived
\* while a flag is set, and only the accepted model is archived.
C14_PromotionStepsInOrder ==
    [][/\ pc' # pc => <<pc, pc'>> \in StepOrder
       /\ (pc = "evaluate" /\ pc' = "publish") =>
             (current_model' = new_model_candidate /\ MODEL_STATE_DICT' # new_model_candidate)
       /\ MODEL_STATE_DICT' # MODEL_STATE_DICT <=> (pc = "publish" /\ pc' = "set_self_play")
       /\ (pc = "publish" /\ pc' # pc) =>
             (MODEL_STATE_DICT' = new_model_candidate /\ SELF_PLAY_SIGNAL = 0
                /\ TRAINING_SIGNAL = 0)
       /\ SELF_PLAY_SIGNAL' # SELF_PLAY_SIGNAL <=>
             \/ (pc = "set_self_play" /\ pc' # pc)
             \/ (pc = "unset_self_play" /\ pc' # pc)
       /\ (pc = "set_self_play" /\ pc' # pc) => SELF_PLAY_SIGNAL' = 1
       /\ (pc = "unset_self_play" /\ pc' # pc) => SELF_PLAY_SIGNAL' = 0
       /\ TRAINING_SIGNAL' # TRAINING_SIGNAL <=>
             \/ (pc = "set_training" /\ pc' # pc)
             \/ (pc = "unset_training" /\ pc' # pc)
       /\ (pc = "set_training" /\ pc' # pc) => TRAINING_SIGNAL' = 1
       /\ (pc = "unset_training" /\ pc' # pc) => TRAINING_SIGNAL' = 0
       /\ (pc = "restore_self_play" /\ pc' # pc) =>
             NUM_SELF_PLAY_WORKERS' = num_self_play_workers
       /\ (pc = "restore_training" /\ pc' # pc) =>
             NUM_TRAINING_WORKERS' = num_training_workers
       /\ archive' # archive => (pc = "save" /\ pc' = "poll")
       /\ (pc = "save" /\ pc' # pc) =>
             /\ SELF_PLAY_SIGNAL = 0 /\ TRAINING_SIGNAL = 0
             /\ new_model_candidate = current_model
             /\ new_model_candidate = MODEL_STATE_DICT
             /\ \E name \in 0..MaxClock :
                   /\ <<name, new_model_candidate>> \in archive'
                   /\ <<name, new_model_candidate>> \notin archive
                   /\ archive' \ archive = {<<name, new_model_candidate>>}]_vars

\* Two promotions have run to the end: both models are archived.
C14_Witness ==
    /\ pc = "poll"
    /\ archive = {<<0, 1>>, <<1, 2>>}
    /\ MODEL_STATE_DICT = 2
    /\ SELF_PLAY_SIGNAL = 0
    /\ TRAINING_SIGNAL = 0

\* The versions the archive holds.
ArchivedModels == {f[2] : f \in archive}

\* The most recently accepted version: candidates are numbered in the order
\* they were proposed and the queue is first-in first-out, so it is the largest.
MostRecentlyAccepted ==
    IF ArchivedModels = {} THEN 0
    ELSE CHOOSE m \in ArchivedModels : \A other \in ArchivedModels : other <= m

\* C15: whenever a tournament is about to start, the incumbent is the most
\* recently accepted candidate (the initial model when none was accepted), and
\* the coordinator's current model is the shared model published to workers.
C15_IncumbentIsLatestAccepted ==
    pc \in {"poll", "evaluate"} =>
        /\ current_model = MostRecentlyAccepted
        /\ current_model = MODEL_STATE_DICT

\* The second candidate is about to play against the accepted first one.
C15_Witness ==
    /\ pc = "evaluate"
    /\ new_model_candidate = 2
    /\ current_model = 1
    /\ ArchivedModels = {1}

PlayerAtPly(ply) == IF ply % 2 = 0 THEN "first_player" ELSE "second_player"

\* What play_game returns for the result the game reports.
ExpectedResult(result) ==
    CASE result = "1-0" -> 1
      [] result = "0-1" -> -1
      [] OTHER -> 0

\* C17: the policy queried at ply k is first_player's for even k and
\* second_player's for odd k, one action is applied per ply, the loop stops at
\* the first board that has ended, and the return value is 1, -1 or 0 for a
\* first-player win, a second-player win and anything else.
C17_AlternateFromFirstPlayer ==
    [][/\ (gpc = "loop" /\ last_move' # last_move) =>
             /\ ~getGameEnded(board)
             /\ last_move'.ply = board.ply
             /\ last_move'.player = PlayerAtPly(board.ply)
             /\ current_player = PlayerAtPly(board.ply)
             /\ next_player # current_player
             /\ gpc' = "loop" =>
                   /\ board'.ply = board.ply + 1
                   /\ current_player' = PlayerAtPly(board.ply + 1)
                   /\ next_player' = current_player
       /\ board' # board => (last_move' # last_move /\ ~getGameEnded(board))
       /\ (gpc = "loop" /\ getGameEnded(board)) =>
             (gpc' = "done" /\ board' = board /\ last_move' = last_move)
       /\ gpc' = "done" =>
             /\ getGameEnded(board')
             /\ board'.ply = last_move'.ply + 1
             /\ game_result' = ExpectedResult(board'.result)]_vars

\* The second player has won a game of three plies.
C17_Witness ==
    /\ gpc = "done"
    /\ game_result = -1
    /\ board.ply = MaxPlies
    /\ last_move.player = "first_player"

\* The names of the files the archive holds.
ArchivedNames == {f[1] : f \in archive}

\* C18 as stated: every save writes a file whose name is larger than every
\* name already archived, so the archive grows by one file at each acceptance
\* and no earlier file is overwritten.
C18_NamesStrictlyIncreasing ==
    [][(pc = "save" /\ pc' = "poll") =>
          /\ \A name \in ArchivedNames : name < FileName(clock)
          /\ archive \subseteq archive'
          /\ Cardinality(archive') = Cardinality(archive) + 1]_vars

\* C18 amended: the names never decrease in acceptance order, and every save
\* leaves the accepted model under the name of its second; an acceptance in a
\* later second than every earlier one adds a file, an acceptance in the same
\* second as the previous one replaces that file.
C18_NamesNeverDecreaseSameSecondOverwrites ==
    [][(pc = "save" /\ pc' = "poll") =>
          /\ \A name \in ArchivedNames : name <= FileName(clock)
          /\ <<FileName(clock), new_model_candidate>> \in archive'
          /\ \A f \in archive' : f[1] = FileName(clock) => f[2] = new_model_candidate
          /\ FileName(clock) \notin ArchivedNames =>
                /\ archive \subseteq archive'
                /\ Cardinality(archive') = Cardinality(archive) + 1
          /\ FileName(clock) \in ArchivedNames =>
                /\ Cardinality(archive') = Cardinality(archive)
                /\ \A f \in archive : f[1] # FileName(clock) => f \in archive']_vars

\* A second model was accepted in the second in which the first was archived.
C18_Witness ==
    /\ pc = "save"
    /\ new_model_candidate = 2
    /\ archive = {<<FileName(clock), 1>>}

\* C19: neither pending counter is ever negative or larger than the number of
\* workers of its class.
C19_CountersWithinRange ==
    /\ 0 <= NUM_SELF_PLAY_WORKERS
    /\ NUM_SELF_PLAY_WORKERS <= Cardinality(SelfPlayWorkers)
    /\ 0 <= NUM_TRAINING_WORKERS
    /\ NUM_TRAINING_WORKERS <= Cardinality(TrainingWorkers)

\* C20: with no evaluation games the first tournament returns no decision but
\* ends in an error, and the coordinator stops; the shared model, the flags,
\* the counters, the current model and the archive are as at the start.
C20_NoGamesStopsBeforeAnySharedWrite ==
    num_evaluate_games = 0 =>
        /\ pc \in {"poll", "evaluate", "error"}
        /\ MODEL_STATE_DICT = 0
        /\ current_model = 0
        /\ SELF_PLAY_SIGNAL = 0
        /\ TRAINING_SIGNAL = 0
        /\ NUM_SELF_PLAY_WORKERS = Cardinality(SelfPlayWorkers)
        /\ NUM_TRAINING_WORKERS = Cardinality(TrainingWorkers)
        /\ archive = {}
        /\ pc = "poll" => new_model_candidate = 0
        /\ pc = "error" => (new_model_candidate = 1 /\ ~ENABLED CoordinatorStep)
        /\ \A w \in Workers : wpc[w] = "work" /\ loaded[w] = 0

\* The first candidate was taken from the queue and its tournament failed.
C20_Witness ==
    /\ num_evaluate_games = 0
    /\ pc = "error"
    /\ new_model_candidate = 1

====
